---- MODULE Spec2Model ----
(***************************************************************************)
(* A model of hhutil/io.py: the downloader (download_file and              *)
(* _parse_response_filename) and the archiver (zip_files, _zip_add_file,   *)
(* _zip_add_directory, unzip).                                             *)
(*                                                                         *)
(* Strings are sequences of one-character strings (header values, file     *)
(* names) or of character codes (archive paths, where ordering matters).   *)
(* A directory is a function from the names present in it to entries.      *)
(***************************************************************************)
EXTENDS Naturals, Integers, Sequences, FiniteSets, TLC

VARIABLES
    \* ---- download_file ----
    pc,         \* position inside download_file
    dstIsDir,   \* dst.exists() and dst.is_dir()
    filename,   \* the local `filename`: None or a name
    dst,        \* the local `dst`, as a path relative to dst_dir
    header,     \* the response's Content-Disposition value, or absent
    body,       \* the chunks the server would send
    pos,        \* how many chunks were read from r.raw
    files,      \* the content of dst_dir: name -> entry
    pre,        \* the content of dst_dir when the call started
    fopen,      \* the temporary file object f is open
    exc,        \* the exception in flight inside the try block
    failedAt,   \* the statement that raised
    ret,        \* the value returned to the caller
    raised,     \* the exception that reached the caller
    \* ---- zip_files / _zip_add_directory / unzip ----
    fs,         \* the source tree: file path -> [mode, mtime]
    runs,       \* the archiving calls made so far, with what each left at dst
    zout,       \* the directory unzip extracted the last archive into
    zexc        \* the exception of the last unzip

dvars == <<pc, dstIsDir, filename, dst, header, body, pos, files, pre, fopen, exc,
           failedAt, ret, raised>>
zvars == <<fs, runs, zout, zexc>>
vars == <<pc, dstIsDir, filename, dst, header, body, pos, files, pre, fopen, exc,
          failedAt, ret, raised, fs, runs, zout, zexc>>

-----------------------------------------------------------------------------
(* Bounds *)

\* longest remainder of the header after the `filename=` token
MaxRem == 3
\* longest response body, in chunks
MaxBody == 2
\* number of paths given to one zip_files call
MaxFps == 2
\* number of archiving calls in one behaviour
MaxRuns == 2

-----------------------------------------------------------------------------
(* Optional values *)

None == [some |-> FALSE, v |-> <<>>]
Some(x) == [some |-> TRUE, v |-> x]

NoExc == "none"

RECURSIVE SeqsUpTo(_, _)
SeqsUpTo(S, n) ==
    IF n = 0 THEN {<<>>}
    ELSE LET shorter == SeqsUpTo(S, n - 1)
         IN  shorter \cup {Append(s, c) : s \in shorter, c \in S}

-----------------------------------------------------------------------------
(* Directory entries *)

Absent == [kind |-> "absent", data |-> <<>>, held |-> FALSE]
File(d) == [kind |-> "file", data |-> d, held |-> FALSE]
\* a subdirectory; held says that it holds a file named like the temporary
\* file, whose content is data
Dir == [kind |-> "dir", data |-> <<>>, held |-> FALSE]
DirHolding(d) == [kind |-> "dir", data |-> d, held |-> TRUE]

Entry(d, n) == IF n \in DOMAIN d THEN d[n] ELSE Absent
Put(d, n, e) == [m \in DOMAIN d \cup {n} |-> IF m = n THEN e ELSE d[m]]
Remove(d, n) == [m \in DOMAIN d \ {n} |-> d[m]]

Quote == "\""
Alphabet == {Quote, "n", "s"}
\* the name tempfile.NamedTemporaryFile picked: unique in dst_dir
TmpName == <<"t", "m", "p">>
OldData == <<"o">>
BodyBytes == {"x", "y"}

-----------------------------------------------------------------------------
(* _parse_response_filename *)

Key == <<"f", "i", "l", "e", "n", "a", "m", "e", "=">>

\* key occurs in s at (1-based) position i
OccursAt(s, key, i) ==
    /\ i + Len(key) - 1 <= Len(s)
    /\ SubSeq(s, i, i + Len(key) - 1) = key

\* str.find: the 0-based index of the first occurrence, or -1
Find(s, key) ==
    LET hits == {i \in 1..Len(s) : OccursAt(s, key, i)}
    IN  IF hits = {} THEN -1
        ELSE (CHOOSE i \in hits : \A j \in hits : i <= j) - 1

\* s[p:]
From(s, p) == SubSeq(s, p + 1, Len(s))

\* lines 196-197, of a non-empty name
StripQuotes(name) ==
    IF name[1] = Quote /\ name[Len(name)] = Quote
    THEN SubSeq(name, 2, Len(name) - 1)
    ELSE name

\* the outcome of _parse_response_filename(rep): the exception it raises,
\* or the value it returns
ParseResponseFilename(h) ==
    IF ~h.some
    THEN [exc |-> "KeyError", value |-> None]
    ELSE LET p == Find(h.v, Key)
         IN  IF p = -1
             THEN [exc |-> NoExc, value |-> None]
             ELSE LET name == From(h.v, p + Len(Key))
                  IN  IF name = <<>>
                      THEN [exc |-> "IndexError", value |-> None]
                      ELSE [exc |-> NoExc, value |-> Some(StripQuotes(name))]

-----------------------------------------------------------------------------
(* download_file *)

\* dst_dir / filename, relative to dst_dir: joining the empty name gives
\* dst_dir itself
JoinPath(name) == IF name = <<>> THEN <<>> ELSE <<name>>

TmpPath == <<TmpName>>

\* shutil.move(f.name, dst) on a POSIX file system, inside dst_dir
ShutilMove(d, path) ==
    IF path = <<>>
    THEN \* dst is dst_dir: the real destination is dst_dir/basename(src),
         \* the temporary file itself, which exists
         [exc |-> "shutil.Error", files |-> d]
    ELSE LET n == path[1]
         IN  IF Entry(d, n).kind = "dir"
             THEN \* an existing directory: src is moved inside it
                  [exc |-> NoExc,
                   files |-> Put(Remove(d, TmpName), n,
                                 DirHolding(Entry(d, TmpName).data))]
             ELSE \* os.rename replaces the destination
                  [exc |-> NoExc,
                   files |-> Put(Remove(d, TmpName), n, Entry(d, TmpName))]

\* the file object shutil.copyfileobj writes to
CopyTargetFinalPath(fn) == IF fn.some /\ fn.v # <<>> THEN fn.v ELSE TmpName

CopyTarget(fn) == TmpName

\* lines 225-226
CleanupKeepsTemp(d) == d

Cleanup(d) == IF TmpName \in DOMAIN d THEN Remove(d, TmpName) ELSE d

\* line 227
ReturnPathTempName(fn, p) == IF fn.some THEN p ELSE TmpPath

ReturnPath(fn, p) == p

Prefixes == {<<>>, <<"a", ";">>}
NoHeader == None
Headers ==
    {NoHeader} \cup
    {Some(p \o k \o r) : p \in Prefixes, k \in {<<>>, Key},
                         r \in SeqsUpTo(Alphabet, MaxRem)}
ExplicitHeaders == {NoHeader, Some(Key \o <<"n">>)}
PreNames == {<<"n">>, <<"s">>}
PreDirs ==
    {[m \in P |-> IF m = <<"s">> THEN Dir ELSE File(OldData)] : P \in SUBSET PreNames}
Bodies == SeqsUpTo(BodyBytes, MaxBody)
TransportErrors == {"ConnectionError", "OSError"}

\* lines 202-208
DInit ==
    /\ pc = "start"
    /\ dstIsDir \in BOOLEAN
    /\ pre \in PreDirs
    /\ files = pre
    /\ body \in Bodies
    /\ pos = 0
    /\ IF dstIsDir
       THEN /\ filename = None
            /\ dst = <<>>
            /\ header \in Headers
       ELSE /\ \E n \in PreNames :
                 /\ Entry(pre, n).kind # "dir"
                 /\ filename = Some(n)
                 /\ dst = <<n>>
            /\ header \in ExplicitHeaders
    /\ fopen = FALSE
    /\ exc = NoExc
    /\ failedAt = "none"
    /\ ret = None
    /\ raised = NoExc
    \* the archiver is not used
    /\ fs = <<>>
    /\ runs = <<>>
    /\ zout = None
    /\ zexc = NoExc

\* line 209
CreateTemp ==
    /\ UNCHANGED zvars
    /\ pc = "start"
    /\ files' = Put(files, TmpName, File(<<>>))
    /\ fopen' = TRUE
    /\ pc' = "request"
    /\ UNCHANGED <<dstIsDir, filename, dst, header, body, pos, pre, exc, failedAt,
                   ret, raised>>

\* line 209 raising: nothing was created
CreateTempFails ==
    /\ UNCHANGED zvars
    /\ pc = "start"
    /\ pc' = "done"
    /\ raised' = "OSError"
    /\ failedAt' = "create"
    /\ UNCHANGED <<dstIsDir, filename, dst, header, body, pos, files, pre, fopen,
                   exc, ret>>

\* line 211
RequestOk ==
    /\ UNCHANGED zvars
    /\ pc = "request"
    /\ pc' = "stream"
    /\ UNCHANGED <<dstIsDir, filename, dst, header, body, pos, files, pre, fopen,
                   exc, failedAt, ret, raised>>

RequestFails ==
    /\ UNCHANGED zvars
    /\ pc = "request"
    /\ \E e \in TransportErrors : exc' = e
    /\ failedAt' = "request"
    /\ pc' = "finally"
    /\ UNCHANGED <<dstIsDir, filename, dst, header, body, pos, files, pre, fopen,
                   ret, raised>>

\* line 213, one chunk
CopyChunk ==
    /\ UNCHANGED zvars
    /\ pc = "stream"
    /\ pos < Len(body)
    /\ pos' = pos + 1
    /\ LET t == CopyTarget(filename)
       IN  files' = Put(files, t, File(Append(Entry(files, t).data, body[pos + 1])))
    /\ UNCHANGED <<pc, dstIsDir, filename, dst, header, body, pre, fopen, exc,
                   failedAt, ret, raised>>

\* line 213 raising: a transport error while reading, an I/O error while writing
CopyFails ==
    /\ UNCHANGED zvars
    /\ pc = "stream"
    /\ \E e \in TransportErrors : exc' = e
    /\ failedAt' = "copy"
    /\ pc' = "finally"
    /\ UNCHANGED <<dstIsDir, filename, dst, header, body, pos, files, pre, fopen,
                   ret, raised>>

\* line 213 returning: the stream is exhausted
CopyDone ==
    /\ UNCHANGED zvars
    /\ pc = "stream"
    /\ pos = Len(body)
    /\ pc' = "resolve"
    /\ UNCHANGED <<dstIsDir, filename, dst, header, body, pos, files, pre, fopen,
                   exc, failedAt, ret, raised>>

\* lines 214-215
ResolveFilename ==
    /\ UNCHANGED zvars
    /\ pc = "resolve"
    /\ IF filename.some
       THEN /\ pc' = "close"
            /\ UNCHANGED <<filename, exc, failedAt>>
       ELSE LET r == ParseResponseFilename(header)
            IN  IF r.exc # NoExc
                THEN /\ exc' = r.exc
                     /\ failedAt' = "resolve"
                     /\ pc' = "finally"
                     /\ UNCHANGED filename
                ELSE /\ filename' = r.value
                     /\ pc' = "close"
                     /\ UNCHANGED <<exc, failedAt>>
    /\ UNCHANGED <<dstIsDir, dst, header, body, pos, files, pre, fopen, ret, raised>>

\* line 216
CloseTemp ==
    /\ UNCHANGED zvars
    /\ pc = "close"
    /\ fopen' = FALSE
    /\ pc' = "publish"
    /\ UNCHANGED <<dstIsDir, filename, dst, header, body, pos, files, pre, exc,
                   failedAt, ret, raised>>

\* lines 217-222
Publish ==
    /\ UNCHANGED zvars
    /\ pc = "publish"
    /\ IF filename.some
       THEN LET r == ShutilMove(files, JoinPath(filename.v))
            IN  /\ dst' = JoinPath(filename.v)
                /\ files' = r.files
                /\ exc' = r.exc
                /\ failedAt' = IF r.exc # NoExc THEN "publish" ELSE failedAt
       ELSE UNCHANGED <<dst, files, exc, failedAt>>
    /\ pc' = "finally"
    /\ UNCHANGED <<dstIsDir, filename, header, body, pos, pre, fopen, ret, raised>>

\* lines 223-227
Finally ==
    /\ UNCHANGED zvars
    /\ pc = "finally"
    /\ fopen' = FALSE
    /\ files' = Cleanup(files)
    /\ IF exc = NoExc
       THEN /\ ret' = Some(ReturnPath(filename, dst))
            /\ UNCHANGED raised
       ELSE /\ raised' = exc
            /\ UNCHANGED ret
    /\ pc' = "done"
    /\ UNCHANGED <<dstIsDir, filename, dst, header, body, pos, pre, exc, failedAt>>

DNext ==
    \/ CreateTemp
    \/ CreateTempFails
    \/ RequestOk
    \/ RequestFails
    \/ CopyChunk
    \/ CopyFails
    \/ CopyDone
    \/ ResolveFilename
    \/ CloseTemp
    \/ Publish
    \/ Finally

DownloadSpec == DInit /\ [][DNext]_vars

-----------------------------------------------------------------------------
(* The source tree of the archiver *)

\* File names are sequences of character codes, compared as Python compares
\* str: "a" = <<97>>, "b" = <<98>>, "x" = <<120>>, "a.t" = <<97, 46, 116>>.
NameA == <<97>>
NameB == <<98>>
NameX == <<120>>
NameADotT == <<97, 46, 116>>
\* os.sep
Sep == <<47>>

\* the paths a source tree may hold a file at: a/x, b/x, a.t
TreePaths == {<<NameA, NameX>>, <<NameB, NameX>>, <<NameADotT>>}
Modes == {"0o644", "0o755"}
Contents == {<<"c1">>, <<"c2">>}
FileStates == [mode : Modes, mtime : {1}, data : Contents]
Trees == UNION {[P -> FileStates] : P \in SUBSET TreePaths}

Range(q) == {q[i] : i \in 1..Len(q)}

\* s < t on str
LexLess(s, t) ==
    \/ /\ Len(s) < Len(t)
       /\ SubSeq(t, 1, Len(s)) = s
    \/ \E k \in 1..Len(s) :
          /\ k <= Len(t)
          /\ SubSeq(s, 1, k - 1) = SubSeq(t, 1, k - 1)
          /\ s[k] < t[k]

\* sorted(S), for a set of str
RECURSIVE Sorted(_)
Sorted(S) ==
    IF S = {} THEN <<>>
    ELSE LET least == CHOOSE m \in S : \A o \in S \ {m} : LexLess(m, o)
         IN  <<least>> \o Sorted(S \ {least})

IsPrefix(a, b) == Len(a) <= Len(b) /\ SubSeq(b, 1, Len(a)) = a

\* os.listdir(path)
ListDir(t, path) ==
    {p[Len(path) + 1] : p \in {q \in DOMAIN t : IsPrefix(path, q) /\ Len(q) > Len(path)}}

\* os.path.join(zip_path, item)
PathJoin(zip_path, item) ==
    IF zip_path = <<>> THEN item ELSE zip_path \o Sep \o item

\* Path.name
BaseName(path) == path[Len(path)]

-----------------------------------------------------------------------------
(* _zip_add_file, ZipFile.write *)

FixedDateTime == <<2019, 1, 1, 0, 0, 0>>

\* os.access(path, os.X_OK), for the owner of the file
IsExecutable(f) == f.mode = "0o755"

\* the entry _zip_add_file writes for an existing file
ZipAddFile(t, path, zip_path) ==
    [name |-> zip_path,
     date_time |-> FixedDateTime,
     external_attr |-> IF IsExecutable(t[path]) THEN "S_IFREG|0o555" ELSE "S_IFREG|0o444",
     compress_type |-> "ZIP_DEFLATED",
     compresslevel |-> "9",
     data |-> t[path].data]

\* the entry zf.write(path, arcname) writes for an existing file
ZipWrite(t, path, zip_path) ==
    [name |-> zip_path,
     date_time |-> <<"mtime", t[path].mtime>>,
     external_attr |-> t[path].mode,
     compress_type |-> "ZIP_DEFLATED",
     compresslevel |-> "default",
     data |-> t[path].data]

-----------------------------------------------------------------------------
(* zip_files *)

\* the loop of lines 167-172 from the i-th path on, acc being the entries
\* written so far; a missing source raises out of the loop, and line 173 is
\* not reached
RECURSIVE ZipLoop(_, _, _, _, _)
ZipLoop(t, fps, deterministic, i, acc) ==
    IF i > Len(fps)
    THEN [exc |-> NoExc, entries |-> acc, closed |-> TRUE]
    ELSE IF fps[i] \notin DOMAIN t
    THEN [exc |-> "FileNotFoundError", entries |-> acc, closed |-> FALSE]
    ELSE ZipLoop(t, fps, deterministic, i + 1,
                 Append(acc, IF deterministic
                             THEN ZipAddFile(t, fps[i], BaseName(fps[i]))
                             ELSE ZipWrite(t, fps[i], BaseName(fps[i]))))

\* what zip_files leaves behind: line 166 creates the file at dst before
\* any source is looked at
ZipFilesResult(t, fps, deterministic) ==
    LET r == ZipLoop(t, fps, deterministic, 1, <<>>)
    IN  [op |-> "zip_files", fps |-> fps, deterministic |-> deterministic,
         exc |-> r.exc, entries |-> r.entries, closed |-> r.closed,
         dstExists |-> TRUE]

-----------------------------------------------------------------------------
(* _zip_add_directory *)

RECURSIVE ZipAddDirectory(_, _, _)
RECURSIVE ZipAddItems(_, _, _, _)

\* the loop body of lines 143-148 over the sorted listing
ZipAddItems(t, path, zip_path, items) ==
    IF items = <<>> THEN <<>>
    ELSE LET item == Head(items)
             current_path == Append(path, item)
             current_zip_path == PathJoin(zip_path, item)
         IN  (IF current_path \in DOMAIN t
              THEN <<ZipAddFile(t, current_path, current_zip_path)>>
              ELSE ZipAddDirectory(t, current_path, current_zip_path))
             \o ZipAddItems(t, path, zip_path, Tail(items))

\* the entries _zip_add_directory(zip_file, path, zip_path) writes
ZipAddDirectory(t, path, zip_path) ==
    ZipAddItems(t, path, zip_path, Sorted(ListDir(t, path)))

-----------------------------------------------------------------------------
(* unzip *)

\* ZipFile.extractall into an empty directory: every entry is written at its
\* name, a later entry replacing an earlier one of the same name
RECURSIVE ExtractAll(_, _)
ExtractAll(entries, out) ==
    IF entries = <<>> THEN out
    ELSE ExtractAll(Tail(entries),
                    [n \in DOMAIN out \cup {Head(entries).name} |->
                        IF n = Head(entries).name THEN Head(entries).data ELSE out[n]])

-----------------------------------------------------------------------------
(* The archiver's operations *)

FpsLists ==
    {q \in SeqsUpTo(TreePaths, MaxFps) :
        Len(q) >= 1 /\ \A i, j \in 1..Len(q) : i # j => q[i] # q[j]}

ZInit ==
    /\ fs \in Trees
    /\ runs = <<>>
    /\ zout = None
    /\ zexc = NoExc
    \* the downloader is not used
    /\ pc = "idle"
    /\ dstIsDir = FALSE
    /\ filename = None
    /\ dst = <<>>
    /\ header = None
    /\ body = <<>>
    /\ pos = 0
    /\ files = <<>>
    /\ pre = <<>>
    /\ fopen = FALSE
    /\ exc = NoExc
    /\ failedAt = "none"
    /\ ret = None
    /\ raised = NoExc

\* a call zip_files(fps, dst, deterministic) with dst a fresh path
ZipFiles ==
    /\ UNCHANGED dvars
    /\ Len(runs) < MaxRuns
    /\ \E fps \in FpsLists, deterministic \in BOOLEAN :
          runs' = Append(runs, ZipFilesResult(fs, fps, deterministic))
    /\ zout' = None
    /\ zexc' = NoExc
    /\ UNCHANGED fs

\* an archive of the whole tree written by _zip_add_directory(zf, root, "")
ZipTree ==
    /\ UNCHANGED dvars
    /\ Len(runs) < MaxRuns
    /\ runs' = Append(runs,
                      [op |-> "_zip_add_directory", fps |-> <<>>,
                       deterministic |-> TRUE, exc |-> NoExc,
                       entries |-> ZipAddDirectory(fs, <<>>, <<>>),
                       closed |-> TRUE, dstExists |-> TRUE])
    /\ zout' = None
    /\ zexc' = NoExc
    /\ UNCHANGED fs

\* the environment rewrites a source file in place: only its mtime changes
Touch ==
    /\ UNCHANGED dvars
    /\ \E p \in DOMAIN fs :
          /\ fs[p].mtime = 1
          /\ fs' = [fs EXCEPT ![p].mtime = 2]
    /\ UNCHANGED <<runs, zout, zexc>>

\* unzip(fp, dst) of the last archive into an empty directory.  An archive
\* zip_files abandoned has no central directory until the ZipFile object is
\* finalized, which the interpreter may or may not have done yet.
Unzip ==
    /\ UNCHANGED dvars
    /\ runs # <<>>
    /\ zout = None
    /\ zexc = NoExc
    /\ LET r == runs[Len(runs)]
       IN  \/ /\ zout' = Some(ExtractAll(r.entries, <<>>))
              /\ zexc' = NoExc
           \/ /\ ~r.closed
              /\ zexc' = "BadZipFile"
              /\ zout' = None
    /\ UNCHANGED <<fs, runs>>

ZNext ==
    \/ ZipFiles
    \/ ZipTree
    \/ Touch
    \/ Unzip

ZipSpec == ZInit /\ [][ZNext]_vars

-----------------------------------------------------------------------------
(* Properties of download_file *)

\* the names an observer of dst_dir can see, the temporary name apart
VisibleNames == (DOMAIN files \cup DOMAIN pre) \ {TmpName}

\* the call ended with an exception raised after line 209 had created f
FailedAfterCreate ==
    pc = "done" /\ failedAt \in {"request", "copy", "resolve", "publish"}

\* C1: a download_file call that fails after the temporary file was created
\* leaves every path of the destination directory, the final path included,
\* as it was before the call, leaves no temporary file, and raises the error
\* to the caller.
C1_FailureLeavesDestinationUntouched ==
    FailedAfterCreate =>
        /\ \A n \in VisibleNames : Entry(files, n) = Entry(pre, n)
        /\ TmpName \notin DOMAIN files
        /\ raised # NoExc
        /\ raised = exc
        /\ ~ret.some

\* C1, witness: streaming towards an existing file failed after a chunk was
\* written.
C1_Witness ==
    /\ pc = "done"
    /\ failedAt = "copy"
    /\ pos >= 1
    /\ filename.some
    /\ Entry(pre, filename.v) = File(OldData)

DownloadedAt(path) ==
    /\ path # <<>>
    /\ Entry(files, path[1]) = File(body)

\* C3: with a directory destination and no filename resolved from the
\* response, download_file does not end silently: it raises, or a file with
\* the downloaded bytes exists at the path it returns.
C3_UnresolvedNeverSilent ==
    (pc = "done" /\ dstIsDir /\ ~filename.some
        /\ failedAt \notin {"create", "request", "copy"}) =>
        \/ raised # NoExc
        \/ ret.some /\ DownloadedAt(ret.v)

\* the header is absent, or has no `filename=` token, or nothing follows it
Unparseable(h) ==
    \/ ~h.some
    \/ Find(h.v, Key) = -1
    \/ From(h.v, Find(h.v, Key) + Len(Key)) = <<>>

\* C4: with a directory destination and an absent or unparseable header,
\* filename resolution does not raise: the filename stays unresolved and the
\* call goes on to the unresolved-filename branch.
C4_UnparseableStaysUnresolved ==
    (dstIsDir /\ Unparseable(header)) =>
        /\ failedAt # "resolve"
        /\ pc = "publish" => ~filename.some

\* the name the claim expects: the explicit one, or what follows the token
\* with one pair of surrounding double quotes removed
ExpectedName ==
    IF ~dstIsDir THEN filename.v
    ELSE LET r == From(header.v, Find(header.v, Key) + Len(Key))
         IN  IF Len(r) >= 2 /\ r[1] = Quote /\ r[Len(r)] = Quote
             THEN SubSeq(r, 2, Len(r) - 1)
             ELSE r

\* C5: a successful download_file call with a resolved filename returns
\* directory/N, a file with the complete body exists there, and no other
\* name of the directory changed.
C5_ResolvedPublishesExactly ==
    (pc = "done" /\ ret.some /\ filename.some) =>
        /\ ret.v = <<ExpectedName>>
        /\ Entry(files, ExpectedName) = File(body)
        /\ \A n \in (DOMAIN files \cup DOMAIN pre) \ {ExpectedName} :
              Entry(files, n) = Entry(pre, n)

\* C10: in every state of a download_file run, a name of the directory other
\* than the temporary one shows what it showed before the call, unless the
\* whole body was streamed, the temporary file was closed and the move was
\* made, and then it shows the complete body.
C10_FinalPathNeverPartial ==
    \A n \in VisibleNames :
        Entry(files, n) # Entry(pre, n) =>
            /\ Entry(files, n).data = body
            /\ pos = Len(body)
            /\ ~fopen
            /\ pc \in {"finally", "done"}

\* C10, witness: in the middle of the stream the temporary file holds a
\* strict, non-empty prefix of the body and the final path is known.
C10_Witness ==
    /\ pc = "stream"
    /\ filename.some
    /\ pos >= 1
    /\ pos < Len(body)
    /\ Entry(files, TmpName) = File(SubSeq(body, 1, pos))

-----------------------------------------------------------------------------
(* Properties of the archiver *)

Successful(r) == r.exc = NoExc

\* C6: two deterministic zip_files runs over the same set of source files
\* (whose contents and modes never change here, only their mtimes) write
\* the same entries in the same order.
C6_DeterministicRunsIdentical ==
    \A i, j \in 1..Len(runs) :
        (/\ runs[i].op = "zip_files" /\ runs[j].op = "zip_files"
         /\ runs[i].deterministic /\ runs[j].deterministic
         /\ Successful(runs[i]) /\ Successful(runs[j])
         /\ Range(runs[i].fps) = Range(runs[j].fps))
        => runs[i].entries = runs[j].entries

\* C7: the entries of a deterministic archive, written by zip_files or by
\* _zip_add_directory, are in increasing order of archive-relative path.
C7_EntriesInPathOrder ==
    \A k \in 1..Len(runs) :
        (runs[k].deterministic /\ Successful(runs[k])) =>
            \A i, j \in 1..Len(runs[k].entries) :
                i < j => LexLess(runs[k].entries[i].name, runs[k].entries[j].name)

\* C8: a zip_files call that fails on a missing source leaves no file at the
\* destination path.
C8_NoArchiveLeftOnFailure ==
    \A k \in 1..Len(runs) : ~Successful(runs[k]) => ~runs[k].dstExists

\* C9: after zip_files and unzip into an empty directory there is one
\* extracted file per source file, at the source's archive name, with the
\* source's content.
C9_RoundTrip ==
    (/\ runs # <<>>
     /\ zout.some
     /\ runs[Len(runs)].op = "zip_files"
     /\ Successful(runs[Len(runs)])) =>
        LET r == runs[Len(runs)]
        IN  /\ Cardinality(DOMAIN zout.v) = Cardinality(Range(r.fps))
            /\ \A p \in Range(r.fps) :
                  /\ BaseName(p) \in DOMAIN zout.v
                  /\ zout.v[BaseName(p)] = fs[p].data

====
